---- MODULE Spec2Model ----
(***************************************************************************)
(* Model of the feedback backend: the Flask handlers of                    *)
(* controllers/form.py and controllers/feedback.py over one MongoDB        *)
(* database reached through MongoConnectionHolder.                         *)
(*                                                                         *)
(* A collection is a sequence of documents in insertion order; a document  *)
(* is a function from field names to values.  Python str values are TLA+   *)
(* strings, Python None in a str-valued field is the sentinel None,        *)
(* datetimes are readings of the logical clock `now`, uuid4 strings are    *)
(* readings of the counter `uuid`.  A rating, whose JSON type is free, is  *)
(* a tagged value (see PyInt .. PyNone).                                   *)
(***************************************************************************)
EXTENDS Integers, Sequences, FiniteSets, Bags, TLC

\* ------------------------------------------------------------- bounds
\* number of uuid4 values drawn (documents ever created)
MaxDocs == 2
\* last reading of the clock
MaxClock == 1
\* number of requests that may be in flight together
MaxReqs == 2

VARIABLES
    holder,     \* MongoConnectionHolder.__db is not None
    colls,      \* the database: collection name -> sequence of documents
    uuid,       \* number of uuid4 values generated so far
    now,        \* datetime.now()
    resp,       \* the response of the last completed request
    inflight    \* the bag of the requests being served step by step

vars == <<holder, colls, uuid, now, resp, inflight>>

\* ------------------------------------------------------------- values
None == "None"

FORMS == "forms"

FormTypes == {"rating", "free_text", "rating_text"}

Truthy(s) == s # None /\ s # ""

Has(d, k) == k \in DOMAIN d

\* dict.get(k): the value, or None when the key is missing
Get(d, k) == IF Has(d, k) THEN d[k] ELSE None

\* {"$set": p} applied to document d
Patch(d, p) == [k \in DOMAIN d \cup DOMAIN p |-> IF k \in DOMAIN p THEN p[k] ELSE d[k]]

\* db[name]: the documents of a collection; a missing collection reads as empty
Coll(db, name) == IF name \in DOMAIN db THEN db[name] ELSE << >>

\* a write that creates the collection when it is missing (insert_one)
Store(db, name, docs) == [n \in DOMAIN db \cup {name} |-> IF n = name THEN docs ELSE db[n]]

\* a write that never creates the collection (update_*, delete_*)
Replace(db, name, docs) == [n \in DOMAIN db |-> IF n = name THEN docs ELSE db[n]]

\* A filter is applied as the set I of the positions of the documents it matches.
\* find_one when it yields a document (I is not empty): the first match in natural order
FindOne(docs, I) == docs[CHOOSE i \in I : \A j \in I : i <= j]

\* update_many / update_one with a $set patch on every match
UpdateWhere(docs, I, p) ==
    [i \in DOMAIN docs |-> IF i \in I THEN Patch(docs[i], p) ELSE docs[i]]

\* ------------------------------------------------------------- storage gateway
\* a gateway that connects anew on every call
get_db_Reconnect(h, connect) == connect

\* MongoConnectionHolder.get_db with connect telling whether MongoClient + ping succeed
\* when a connection is attempted: the handle after the call
get_db(h, connect) == h \/ connect

\* ------------------------------------------------------------- form queries
\* {"package_name": p, "is_active": True}
ActiveOfPackage(p, d) ==
    /\ Has(d, "package_name") /\ d["package_name"] = p
    /\ Has(d, "is_active") /\ d["is_active"] = TRUE

\* {"package_name": p, "_id": {"$ne": id}, "is_active": True}
OtherActiveOfPackage(p, id, d) == ActiveOfPackage(p, d) /\ d["_id"] # id

ById(id, d) == d["_id"] = id

\* the positions those filters match
ActiveIn(docs, p) == {i \in DOMAIN docs : ActiveOfPackage(p, docs[i])}

OtherActiveIn(docs, p, id) == {i \in DOMAIN docs : OtherActiveOfPackage(p, id, docs[i])}

WithId(docs, id) == {i \in DOMAIN docs : ById(id, docs[i])}

\* DisableActive with is_active left out of the $set
DisableActive_StampOnly(docs, p, t) ==
    UpdateWhere(docs, ActiveIn(docs, p), [updated_at |-> t])

\* create_form, first write: disable the active forms of the package
DisableActive(docs, p, t) ==
    UpdateWhere(docs, ActiveIn(docs, p), [is_active |-> FALSE, updated_at |-> t])

\* FormDoc with the new form left inactive
FormDoc_Inactive(id, p, title, type, t) ==
    [_id |-> id, package_name |-> p, title |-> title, type |-> type,
     created_at |-> t, updated_at |-> t, is_active |-> FALSE]

\* create_form: the new form document
FormDoc(id, p, title, type, t) ==
    [_id |-> id, package_name |-> p, title |-> title, type |-> type,
     created_at |-> t, updated_at |-> t, is_active |-> TRUE]

\* DeactivateOthers with the update_many left out
DeactivateOthers_None(docs, p, id) == docs

\* update_form_status, first write: deactivate the other forms of the package
DeactivateOthers(docs, p, id) ==
    UpdateWhere(docs, OtherActiveIn(docs, p, id), [is_active |-> FALSE])

\* a second write that stamps the target and leaves is_active alone
SetTarget_StampOnly(docs, id, a, t) ==
    UpdateWhere(docs, WithId(docs, id), [updated_at |-> t])

\* update_form_status, second write: the target form
SetTarget(docs, id, a, t) ==
    UpdateWhere(docs, WithId(docs, id), [is_active |-> a, updated_at |-> t])

\* ------------------------------------------------------------- responses
\* Unavailable answered as a missing resource
Unavailable_AsNotFound(op) == [op |-> op, code |-> 404, error |-> "Package not found"]

\* the handle could not be obtained (every handler's `if db is None`)
Unavailable(op) == [op |-> op, code |-> 500, error |-> "StorageUnavailable"]

\* a storage call raised and the handler has no except clause for it, or catches it
\* and answers 500
StorageError(op) == [op |-> op, code |-> 500, error |-> "StorageError"]

\* a Python exception other than a storage failure escaped the handler
Crashed(op) == [op |-> op, code |-> 500, error |-> "Exception"]

Invalid(op, details) == [op |-> op, code |-> 400, details |-> details]

NotFound(op, error) == [op |-> op, code |-> 404, error |-> error]

\* ------------------------------------------------------------- inputs
FormPackages == {"app1", "app2"}

Titles == {"Rate us"}

\* the values data.get(...) yields in create_form: a missing key reads as None
CreateFormInputs ==
    [package_name : FormPackages, title : Titles, type : {"rating"}]
    \cup {[package_name |-> None, title |-> "Rate us", type |-> "rating"],
          [package_name |-> "app1", title |-> "", type |-> "rating"],
          [package_name |-> "app1", title |-> "Rate us", type |-> "stars"]}

\* the JSON body of update_form_status: an empty body, or {"is_active": bool}
StatusInputs == {<< >>} \cup [{"is_active"} -> BOOLEAN]

Ids == 1..MaxDocs

\* ------------------------------------------------------------- form handlers
create_form_valid(data) ==
    Truthy(data.package_name) /\ Truthy(data.title) /\ data.type \in FormTypes

\* POST /admin/forms
create_form(data, connect, fail) ==
    LET h == get_db(holder, connect)
        forms == Coll(colls, FORMS)
        disabled == DisableActive(forms, data.package_name, now)
        doc == FormDoc(uuid + 1, data.package_name, data.title, data.type, now)
    IN /\ holder' = h
       /\ UNCHANGED <<now, inflight>>
       /\ IF ~h THEN
              /\ resp' = Unavailable("create_form")
              /\ UNCHANGED <<colls, uuid>>
          ELSE IF ~create_form_valid(data) THEN
              /\ resp' = Invalid("create_form", "Invalid request")
              /\ UNCHANGED <<colls, uuid>>
          ELSE IF fail = 1 THEN
              /\ resp' = StorageError("create_form")
              /\ UNCHANGED <<colls, uuid>>
          ELSE
              /\ uuid < MaxDocs
              /\ uuid' = uuid + 1
              /\ IF fail = 2 THEN
                     /\ colls' = Replace(colls, FORMS, disabled)
                     /\ resp' = StorageError("create_form")
                 ELSE
                     /\ colls' = Store(colls, FORMS, Append(disabled, doc))
                     /\ resp' = [op |-> "create_form", code |-> 201, _id |-> doc._id,
                                 created_at |-> doc.created_at, type |-> data.type]

\* get_active_form once it holds the handle: find_one, then 404 or the document
ActiveFormResponse(db, package_name) ==
    LET I == ActiveIn(Coll(db, FORMS), package_name)
    IN IF I = {}
       THEN NotFound("get_active_form", "No active form found for this package")
       ELSE [op |-> "get_active_form", code |-> 200, body |-> FindOne(Coll(db, FORMS), I)]

\* GET /forms/<package_name>
get_active_form(package_name, connect) ==
    LET h == get_db(holder, connect)
    IN /\ holder' = h
       /\ UNCHANGED <<colls, uuid, now, inflight>>
       /\ resp' = IF ~h THEN Unavailable("get_active_form")
                  ELSE ActiveFormResponse(colls, package_name)

\* DeactivatedCount with the {"$ne": form_id} clause left out of the filter
DeactivatedCount_WithTarget(docs, p, id) ==
    Cardinality(ActiveIn(docs, p))

\* result.modified_count of the update_many of update_form_status
DeactivatedCount(docs, p, id) ==
    Cardinality(OtherActiveIn(docs, p, id))

\* Siblings with the `if is_active:` left out
Siblings_Always(docs, form, id, is_active) == DeactivateOthers(docs, form["package_name"], id)

\* update_form_status, `if is_active:` around the first write
Siblings(docs, form, id, is_active) ==
    IF is_active THEN DeactivateOthers(docs, form["package_name"], id) ELSE docs

\* PUT /forms/<form_id>/activate
update_form_status(form_id, data, connect, fail) ==
    LET h == get_db(holder, connect)
        forms == Coll(colls, FORMS)
        found == WithId(forms, form_id)
        form == FindOne(forms, found)
        is_active == data["is_active"]
        p == form["package_name"]
        others == Siblings(forms, form, form_id, is_active)
        count == IF is_active THEN DeactivatedCount(forms, p, form_id) ELSE 0
    IN /\ holder' = h
       /\ UNCHANGED <<uuid, now, inflight>>
       /\ IF ~h THEN
              /\ resp' = Unavailable("update_form_status")
              /\ UNCHANGED colls
          ELSE IF ~Has(data, "is_active") THEN
              /\ resp' = Invalid("update_form_status", "Invalid request data received.")
              /\ UNCHANGED colls
          ELSE IF fail = 1 THEN
              /\ resp' = StorageError("update_form_status")
              /\ UNCHANGED colls
          ELSE IF found = {} THEN
              /\ resp' = NotFound("update_form_status", "Form not found.")
              /\ UNCHANGED colls
          ELSE IF is_active /\ ~Has(form, "package_name") THEN
              /\ resp' = Crashed("update_form_status")
              /\ UNCHANGED colls
          ELSE IF is_active /\ fail = 2 THEN
              /\ resp' = StorageError("update_form_status")
              /\ UNCHANGED colls
          ELSE IF fail = 3 THEN
              /\ resp' = StorageError("update_form_status")
              /\ colls' = Replace(colls, FORMS, others)
          ELSE
              /\ colls' = Replace(colls, FORMS, SetTarget(others, form_id, is_active, now))
              /\ resp' = [op |-> "update_form_status", code |-> 200, _id |-> form_id,
                          is_active |-> is_active, updated_at |-> now,
                          deactivated_forms_count |-> count]

\* ------------------------------------------------------------- rating values
\* A JSON value of the "rating" key, tagged by its Python type.  A str is the sequence
\* of its characters; a float is given in tenths.
PyInt(n) == [int |-> n]

PyStr(chars) == [str |-> chars]

PyFloat(tenths) == [float10 |-> tenths]

PyBool(b) == [bool |-> b]

PyNone == [none |-> TRUE]

Digits == {"0", "1", "2", "3", "4", "5", "6", "7", "8", "9"}

DigitValue(c) ==
    CASE c = "0" -> 0 [] c = "1" -> 1 [] c = "2" -> 2 [] c = "3" -> 3 [] c = "4" -> 4
      [] c = "5" -> 5 [] c = "6" -> 6 [] c = "7" -> 7 [] c = "8" -> 8 [] c = "9" -> 9

RECURSIVE DecimalValue(_)
DecimalValue(chars) ==
    IF chars = << >> THEN 0
    ELSE 10 * DecimalValue(SubSeq(chars, 1, Len(chars) - 1)) + DigitValue(chars[Len(chars)])

\* int(v) raises TypeError (None) or ValueError (a str that is no decimal literal)
IntRaises(v) ==
    \/ Has(v, "none")
    \/ Has(v, "str") /\ (v.str = << >> \/ \E i \in DOMAIN v.str : v.str[i] \notin Digits)

\* int(v) when it does not raise: a float is truncated towards zero, a bool is 0 or 1
IntOf(v) ==
    CASE Has(v, "int") -> v.int
      [] Has(v, "bool") -> IF v.bool THEN 1 ELSE 0
      [] Has(v, "float10") ->
             IF v.float10 >= 0 THEN v.float10 \div 10 ELSE -((-v.float10) \div 10)
      [] Has(v, "str") -> DecimalValue(v.str)

\* data.get("rating")
GetRating(data) == IF Has(data, "rating") THEN data["rating"] ELSE PyNone

\* ------------------------------------------------------------- feedback handlers
required_fields == {"package_name", "app_version", "form_id", "user_id"}

\* `if not data.get("message") and data.get("rating") is None`
NothingProvided(data) == ~Truthy(Get(data, "message")) /\ GetRating(data) = PyNone

\* RatingRejected with the range test written 0 <= rating <= 5
RatingRejected_FromZero(data) ==
    Has(data, "rating") /\
        (IntRaises(data["rating"]) \/ ~(0 <= IntOf(data["rating"]) /\ IntOf(data["rating"]) <= 5))

\* the try block of `if "rating" in data` ends in the except clause
RatingRejected(data) ==
    Has(data, "rating") /\
        (IntRaises(data["rating"]) \/ ~(1 <= IntOf(data["rating"]) /\ IntOf(data["rating"]) <= 5))

\* feedback_item
FeedbackItem(id, data, t) ==
    [_id |-> id, message |-> Get(data, "message"), rating |-> GetRating(data),
     app_version |-> Get(data, "app_version"), device_info |-> Get(data, "device_info"),
     form_id |-> data["form_id"], user_id |-> data["user_id"], created_at |-> t]

\* db[name] raises InvalidName for an empty collection name
InvalidName(name) == name = ""

\* the 400 answers of submit_feedback, in the order the handler tests for them; "" when
\* the request passes validation
SubmitRejection(data) ==
    IF DOMAIN data = {} THEN "Expected JSON payload with required fields"
    ELSE IF required_fields \ DOMAIN data # {} THEN "Missing required field(s)"
    ELSE IF NothingProvided(data) THEN "At least one of 'message' or 'rating' must be provided"
    ELSE IF RatingRejected(data) THEN "Rating must be an integer between 1 and 5"
    ELSE ""

\* POST /feedback
submit_feedback(data, connect, fail) ==
    LET h == get_db(holder, connect)
        item == FeedbackItem(uuid + 1, data, now)
        name == data["package_name"]
    IN /\ holder' = h
       /\ UNCHANGED <<now, inflight>>
       /\ IF ~h THEN
              /\ resp' = Unavailable("submit_feedback")
              /\ UNCHANGED <<colls, uuid>>
          ELSE IF SubmitRejection(data) # "" THEN
              /\ resp' = Invalid("submit_feedback", SubmitRejection(data))
              /\ UNCHANGED <<colls, uuid>>
          ELSE
              /\ uuid < MaxDocs
              /\ uuid' = uuid + 1
              /\ IF fail \/ InvalidName(name) THEN
                     /\ resp' = StorageError("submit_feedback")
                     /\ UNCHANGED colls
                 ELSE
                     /\ colls' = Store(colls, name, Append(Coll(colls, name), item))
                     /\ resp' = [op |-> "submit_feedback", code |-> 201,
                                 package_name |-> name, _id |-> item._id,
                                 created_at |-> item.created_at, message |-> item.message,
                                 rating |-> item.rating, user_id |-> item.user_id,
                                 form_id |-> item.form_id, app_version |-> item.app_version,
                                 device_info |-> item.device_info]

\* Remove that deletes nothing
Remove_Nothing(docs, I) == docs

\* the documents left by delete_one / delete_many
Remove(docs, I) ==
    LET keep == {i \in DOMAIN docs : i \notin I}
        F[n \in 0..Len(docs)] ==
            IF n = 0 THEN << >>
            ELSE IF n \in keep THEN Append(F[n - 1], docs[n]) ELSE F[n - 1]
    IN F[Len(docs)]

\* delete_one: the first match only
First(I) == IF I = {} THEN {} ELSE {CHOOSE i \in I : \A j \in I : i <= j}

\* DELETE /feedback/<package_name>/<feedback_id>
delete_feedback(package_name, feedback_id, connect) ==
    LET h == get_db(holder, connect)
        docs == Coll(colls, package_name)
        hit == First(WithId(docs, feedback_id))
    IN /\ holder' = h
       /\ UNCHANGED <<uuid, now, inflight>>
       /\ IF ~h THEN
              /\ resp' = Unavailable("delete_feedback")
              /\ UNCHANGED colls
          ELSE IF package_name \notin DOMAIN colls THEN
              /\ resp' = NotFound("delete_feedback", "Package not found")
              /\ UNCHANGED colls
          ELSE IF hit = {} THEN
              /\ resp' = NotFound("delete_feedback", "Feedback not found")
              /\ UNCHANGED colls
          ELSE
              /\ colls' = Replace(colls, package_name, Remove(docs, hit))
              /\ resp' = [op |-> "delete_feedback", code |-> 200]

\* OfForm with the form_id left out of the filter
OfForm_Any(form_id, d) == Has(d, "form_id")

\* {"form_id": form_id}
OfForm(form_id, d) == Has(d, "form_id") /\ d["form_id"] = form_id

\* DELETE /feedback/<package_name>/form/<form_id>
delete_feedbacks_for_form(package_name, form_id, connect) ==
    LET h == get_db(holder, connect)
        docs == Coll(colls, package_name)
        hit == {i \in DOMAIN docs : OfForm(form_id, docs[i])}
    IN /\ holder' = h
       /\ UNCHANGED <<uuid, now, inflight>>
       /\ IF ~h THEN
              /\ resp' = Unavailable("delete_feedbacks_for_form")
              /\ UNCHANGED colls
          ELSE IF package_name \notin DOMAIN colls THEN
              /\ resp' = NotFound("delete_feedbacks_for_form", "Package not found")
              /\ UNCHANGED colls
          ELSE IF hit = {} THEN
              /\ resp' = NotFound("delete_feedbacks_for_form", "No feedbacks found for the form")
              /\ UNCHANGED colls
          ELSE
              /\ colls' = Replace(colls, package_name, Remove(docs, hit))
              /\ resp' = [op |-> "delete_feedbacks_for_form", code |-> 200,
                          deleted_count |-> Cardinality(hit)]

\* DELETE /feedback/<package_name>
delete_all_feedbacks(package_name, connect) ==
    LET h == get_db(holder, connect)
        docs == Coll(colls, package_name)
    IN /\ holder' = h
       /\ UNCHANGED <<uuid, now, inflight>>
       /\ IF ~h THEN
              /\ resp' = Unavailable("delete_all_feedbacks")
              /\ UNCHANGED colls
          ELSE IF package_name \notin DOMAIN colls THEN
              /\ resp' = NotFound("delete_all_feedbacks", "Package not found")
              /\ UNCHANGED colls
          ELSE
              /\ colls' = Replace(colls, package_name, << >>)
              /\ resp' = [op |-> "delete_all_feedbacks", code |-> 200,
                          deleted_count |-> Len(docs)]

\* ------------------------------------------------------------- feedback queries
\* list(cursor): the matched documents in natural order
Select(docs, I) == Remove(docs, DOMAIN docs \ I)

\* FormQuery with the form_id argument ignored
FormQuery_Unfiltered(docs, form_id) == DOMAIN docs

\* `if form_id is not None and form_id != "": query["form_id"] = form_id`, then find(query)
FormQuery(docs, form_id) ==
    IF form_id # None /\ form_id # ""
    THEN {i \in DOMAIN docs : OfForm(form_id, docs[i])}
    ELSE DOMAIN docs

\* OfUser with an empty filter
OfUser_All(docs, user_id) == DOMAIN docs

\* {"user_id": user_id}
OfUser(docs, user_id) ==
    {i \in DOMAIN docs : Has(docs[i], "user_id") /\ docs[i]["user_id"] = user_id}

\* the characters of the strings used as messages, titles and query arguments
Chars(s) ==
    CASE s = "" -> << >>
      [] s = "good" -> <<"g", "o", "o", "d">>
      [] s = "OO" -> <<"O", "O">>
      [] s = "zz" -> <<"z", "z">>
      [] s = "Rate us" -> <<"R", "a", "t", "e", " ", "u", "s">>
      [] s = "rate" -> <<"r", "a", "t", "e">>
      [] s = "1" -> <<"1">>
      [] s = "x" -> <<"x">>
      [] s = "." -> <<".">>

\* the "i" option: letters compare by their lower case
Lower(c) == CASE c = "O" -> "o" [] c = "R" -> "r" [] OTHER -> c

\* {"$regex": term, "$options": "i"} for a term of letters and ".": the value is a
\* string and the pattern occurs in it, "." standing for any one character; a null or
\* missing value never matches
RegexMatches(term, value) ==
    /\ value # None
    /\ LET t == Chars(term)
           v == Chars(value)
       IN \E off \in 0..Len(v) :
              /\ off + Len(t) <= Len(v)
              /\ \A k \in 1..Len(t) : t[k] = "." \/ Lower(t[k]) = Lower(v[off + k])

\* {"message": {"$regex": query, "$options": "i"}}
MessageMatches(docs, query) ==
    {i \in DOMAIN docs : Has(docs[i], "message") /\ RegexMatches(query, docs[i]["message"])}

\* ------------------------------------------------------------- feedback read handlers
\* GET /feedback/<package_name>
get_all_package_feedback(package_name, form_id, connect) ==
    LET h == get_db(holder, connect)
        docs == Coll(colls, package_name)
        I == FormQuery(docs, form_id)
    IN /\ holder' = h
       /\ UNCHANGED <<colls, uuid, now, inflight>>
       /\ resp' = IF ~h THEN Unavailable("get_all_package_feedback")
                  ELSE IF package_name \notin DOMAIN colls
                  THEN NotFound("get_all_package_feedback", "Package not found")
                  ELSE IF I = {}
                  THEN NotFound("get_all_package_feedback", "No feedbacks found for the form")
                  ELSE [op |-> "get_all_package_feedback", code |-> 200,
                        body |-> Select(docs, I)]

\* GET /feedback/<package_name>/<feedback_id>
get_feedback_details(package_name, feedback_id, connect) ==
    LET h == get_db(holder, connect)
        docs == Coll(colls, package_name)
        I == WithId(docs, feedback_id)
    IN /\ holder' = h
       /\ UNCHANGED <<colls, uuid, now, inflight>>
       /\ resp' = IF ~h THEN Unavailable("get_feedback_details")
                  ELSE IF package_name \notin DOMAIN colls
                  THEN NotFound("get_feedback_details", "Package not found")
                  ELSE IF I = {}
                  THEN NotFound("get_feedback_details", "Feedback not found")
                  ELSE [op |-> "get_feedback_details", code |-> 200,
                        body |-> FindOne(docs, I)]

\* GET /feedback/<package_name>/user/<user_id>
get_feedback_by_user(package_name, user_id, connect) ==
    LET h == get_db(holder, connect)
        docs == Coll(colls, package_name)
    IN /\ holder' = h
       /\ UNCHANGED <<colls, uuid, now, inflight>>
       /\ resp' = IF ~h THEN Unavailable("get_feedback_by_user")
                  ELSE IF package_name \notin DOMAIN colls
                  THEN NotFound("get_feedback_by_user", "Package not found")
                  ELSE [op |-> "get_feedback_by_user", code |-> 200,
                        body |-> Select(docs, OfUser(docs, user_id))]

\* GET /feedback/<package_name>/search
search_feedback_by_message(package_name, q, connect) ==
    LET h == get_db(holder, connect)
        query == IF q = None THEN "" ELSE q
        docs == Coll(colls, package_name)
    IN /\ holder' = h
       /\ UNCHANGED <<colls, uuid, now, inflight>>
       /\ resp' = IF ~h THEN Unavailable("search_feedback_by_message")
                  ELSE IF package_name \notin DOMAIN colls
                  THEN NotFound("search_feedback_by_message", "Package not found")
                  ELSE [op |-> "search_feedback_by_message", code |-> 200,
                        body |-> Select(docs, MessageMatches(docs, query))]

\* ------------------------------------------------------------- rating aggregates
\* f.get("rating")
RatingOf(d) == IF Has(d, "rating") THEN d["rating"] ELSE PyNone

\* `isinstance(rating, int) and 1 <= rating <= 5`: bool is a subclass of int, True == 1
Counted(r) ==
    \/ Has(r, "int") /\ 1 <= r.int /\ r.int <= 5
    \/ Has(r, "bool") /\ 1 <= IntOf(r) /\ IntOf(r) <= 5

\* the list `ratings`, as the positions of the documents whose rating is appended
RatingsOf(docs, I) == {i \in I : Counted(RatingOf(docs[i]))}

\* sum(ratings)
SumOf(docs, J) ==
    LET S[n \in 0..Len(docs)] ==
            IF n = 0 THEN 0
            ELSE S[n - 1] + (IF n \in J THEN IntOf(RatingOf(docs[n])) ELSE 0)
    IN S[Len(docs)]

RECURSIVE Gcd(_, _)
Gcd(a, b) == IF b = 0 THEN a ELSE Gcd(b, a % b)

\* the number a / b, as a fraction in lowest terms
Ratio(a, b) == [num |-> a \div Gcd(a, b), den |-> b \div Gcd(a, b)]

\* `sum(ratings) / len(ratings) if ratings else 0`
Average(docs, I) ==
    LET J == RatingsOf(docs, I)
    IN IF J # {} THEN Ratio(SumOf(docs, J), Cardinality(J)) ELSE Ratio(0, 1)

\* str(f["rating"])
Str(r) ==
    CASE Has(r, "bool") -> IF r.bool THEN "True" ELSE "False"
      [] Has(r, "int") ->
             CASE r.int = 1 -> "1" [] r.int = 2 -> "2" [] r.int = 3 -> "3"
               [] r.int = 4 -> "4" [] r.int = 5 -> "5"

\* {str(i): 0 for i in range(1, 6)}
BreakdownKeys == {"1", "2", "3", "4", "5"}

\* rating_breakdown[str(f["rating"])] += 1 raises KeyError
BreakdownRaises(docs, I) ==
    \E i \in RatingsOf(docs, I) : Str(RatingOf(docs[i])) \notin BreakdownKeys

\* rating_breakdown after the loop
Breakdown(docs, I) ==
    [k \in BreakdownKeys |->
        Cardinality({i \in RatingsOf(docs, I) : Str(RatingOf(docs[i])) = k})]

\* GET /feedback/<package_name>/average-rating
get_average_rating(package_name, form_id, connect) ==
    LET h == get_db(holder, connect)
        docs == Coll(colls, package_name)
        I == FormQuery(docs, form_id)
    IN /\ holder' = h
       /\ UNCHANGED <<colls, uuid, now, inflight>>
       /\ resp' = IF ~h THEN Unavailable("get_average_rating")
                  ELSE IF package_name \notin DOMAIN colls
                  THEN NotFound("get_average_rating", "Package not found")
                  ELSE IF I = {}
                  THEN NotFound("get_average_rating", "No feedbacks found for the form")
                  ELSE [op |-> "get_average_rating", code |-> 200,
                        average_rating |-> Average(docs, I)]

\* GET /feedback/stats/<package_name>
get_feedback_stats(package_name, form_id, connect) ==
    LET h == get_db(holder, connect)
        docs == Coll(colls, package_name)
        I == FormQuery(docs, form_id)
    IN /\ holder' = h
       /\ UNCHANGED <<colls, uuid, now, inflight>>
       /\ resp' = IF ~h THEN Unavailable("get_feedback_stats")
                  ELSE IF package_name \notin DOMAIN colls
                  THEN NotFound("get_feedback_stats", "Package not found")
                  ELSE IF I = {}
                  THEN NotFound("get_feedback_stats", "No feedbacks found for the form")
                  ELSE IF BreakdownRaises(docs, I)
                  THEN Crashed("get_feedback_stats")
                  ELSE [op |-> "get_feedback_stats", code |-> 200,
                        total_feedback |-> Cardinality(I),
                        average_rating |-> Average(docs, I),
                        rating_breakdown |-> Breakdown(docs, I)]

\* ------------------------------------------------------------- recent feedback
\* the sequences over the positions I that list each position once
Orders(I) ==
    {o \in [1..Cardinality(I) -> I] : \A a, b \in 1..Cardinality(I) : a # b => o[a] # o[b]}

\* the matches in any order, as find() without the sort could yield them
SortedDescending_Any(docs, I) == Orders(I)

\* sort("created_at", -1): any order of the matches with created_at descending; the
\* order of documents with equal created_at is not determined
SortedDescending(docs, I) ==
    {o \in Orders(I) :
        \A a, b \in DOMAIN o : a < b => docs[o[a]]["created_at"] >= docs[o[b]]["created_at"]}

\* cursor.limit(n): 0 is no limit, a negative n limits to -n
LimitOf(n, count) ==
    LET m == IF n < 0 THEN -n ELSE n
    IN IF m = 0 \/ m > count THEN count ELSE m

\* request.args.get("limit", 10) as the value int() is applied to
LimitArg(limit) == IF limit = None THEN PyInt(10) ELSE PyStr(Chars(limit))

\* GET /feedback/<package_name>/recent, order being the order the sort yields
get_recent_feedback(package_name, limit, form_id, order, connect) ==
    LET h == get_db(holder, connect)
        docs == Coll(colls, package_name)
        I == FormQuery(docs, form_id)
        n == LimitOf(IntOf(LimitArg(limit)), Cardinality(I))
    IN IF IntRaises(LimitArg(limit)) THEN
           /\ resp' = Crashed("get_recent_feedback")
           /\ UNCHANGED <<holder, colls, uuid, now, inflight>>
       ELSE
           /\ holder' = h
           /\ UNCHANGED <<colls, uuid, now, inflight>>
           /\ IF ~h THEN resp' = Unavailable("get_recent_feedback")
              ELSE IF package_name \notin DOMAIN colls
              THEN resp' = NotFound("get_recent_feedback", "Package not found")
              ELSE IF I = {}
              THEN resp' = NotFound("get_recent_feedback", "No feedbacks found for the form")
              ELSE /\ order \in SortedDescending(docs, I)
                   /\ resp' = [op |-> "get_recent_feedback", code |-> 200,
                               body |-> [k \in 1..n |-> docs[order[k]]]]

\* ------------------------------------------------------------- form read handlers
\* status.lower()
StatusLower(status) ==
    CASE status = "Active" -> "active" [] status = "INACTIVE" -> "inactive" [] OTHER -> status

\* `if status:` and the status is neither "active" nor "inactive"
StatusRejected(status) == Truthy(status) /\ StatusLower(status) \notin {"active", "inactive"}

\* OfStatus with the status argument ignored
OfStatus_Ignored(status, d) == TRUE

\* query["is_active"] = (status == "active"), when a status is given
OfStatus(status, d) ==
    Truthy(status) => (Has(d, "is_active") /\ d["is_active"] = (StatusLower(status) = "active"))

\* GET /forms/<package_name>/all
get_all_forms_by_package(package_name, status, connect) ==
    LET h == get_db(holder, connect)
        forms == Coll(colls, FORMS)
        I == {i \in DOMAIN forms :
                 /\ Has(forms[i], "package_name") /\ forms[i]["package_name"] = package_name
                 /\ OfStatus(status, forms[i])}
    IN /\ holder' = h
       /\ UNCHANGED <<colls, uuid, now, inflight>>
       /\ resp' = IF ~h THEN Unavailable("get_all_forms_by_package")
                  ELSE IF StatusRejected(status)
                  THEN Invalid("get_all_forms_by_package",
                               "Invalid status parameter. Must be 'active' or 'inactive'.")
                  ELSE IF I = {}
                  THEN NotFound("get_all_forms_by_package", "No forms found for this package")
                  ELSE [op |-> "get_all_forms_by_package", code |-> 200,
                        body |-> Select(forms, I)]

\* GET /forms/all
get_all_forms(status, connect) ==
    LET h == get_db(holder, connect)
        forms == Coll(colls, FORMS)
        I == {i \in DOMAIN forms : OfStatus(status, forms[i])}
    IN /\ holder' = h
       /\ UNCHANGED <<colls, uuid, now, inflight>>
       /\ resp' = IF ~h THEN Unavailable("get_all_forms")
                  ELSE IF StatusRejected(status)
                  THEN Invalid("get_all_forms",
                               "Invalid status parameter. Must be 'active' or 'inactive'.")
                  ELSE IF I = {} THEN NotFound("get_all_forms", "No forms found")
                  ELSE [op |-> "get_all_forms", code |-> 200, body |-> Select(forms, I)]

\* the query search_forms builds from the arguments that are given
SearchQuery(package_name, status, title, type, d) ==
    /\ Truthy(package_name) => (Has(d, "package_name") /\ d["package_name"] = package_name)
    /\ OfStatus(status, d)
    /\ Truthy(title) => (Has(d, "title") /\ RegexMatches(title, d["title"]))
    /\ Truthy(type) => (Has(d, "type") /\ d["type"] = type)

\* GET /forms/search
search_forms(package_name, status, title, type, connect, fail) ==
    LET h == get_db(holder, connect)
        forms == Coll(colls, FORMS)
        I == {i \in DOMAIN forms : SearchQuery(package_name, status, title, type, forms[i])}
    IN /\ holder' = h
       /\ UNCHANGED <<colls, uuid, now, inflight>>
       /\ resp' = IF ~h THEN Unavailable("search_forms")
                  ELSE IF StatusRejected(status)
                  THEN Invalid("search_forms",
                               "Invalid status value. Must be 'active' or 'inactive'.")
                  ELSE IF fail THEN StorageError("search_forms")
                  ELSE [op |-> "search_forms", code |-> 200, body |-> Select(forms, I)]

\* ------------------------------------------------------------- form handlers, step by step
\* The same two handlers with other requests running between their storage calls: a
\* step is the handler's code up to and including its next storage call.  A request in
\* flight is a frame holding its position (the storage call it makes next) and locals.
Frame(f) == SetToBag({f})

PendingInserts ==
    LET S == {f \in BagToSet(inflight) : f.pc = "insert_one"}
        N[T \in SUBSET S] ==
            IF T = {} THEN 0
            ELSE LET f == CHOOSE x \in T : TRUE IN CopiesIn(f, inflight) + N[T \ {f}]
    IN N[S]

\* create_form from its start through update_many
create_form_begin(data, connect, fail) ==
    LET h == get_db(holder, connect)
        forms == Coll(colls, FORMS)
    IN /\ BagCardinality(inflight) < MaxReqs
       /\ holder' = h
       /\ UNCHANGED <<uuid, now>>
       /\ IF ~h THEN
              /\ resp' = Unavailable("create_form")
              /\ UNCHANGED <<colls, inflight>>
          ELSE IF ~create_form_valid(data) THEN
              /\ resp' = Invalid("create_form", "Invalid request")
              /\ UNCHANGED <<colls, inflight>>
          ELSE IF fail THEN
              /\ resp' = StorageError("create_form")
              /\ UNCHANGED <<colls, inflight>>
          ELSE
              /\ uuid + PendingInserts < MaxDocs
              /\ colls' = Replace(colls, FORMS, DisableActive(forms, data.package_name, now))
              /\ inflight' = inflight (+)
                                 Frame([pc |-> "insert_one", op |-> "create_form", data |-> data])
              /\ UNCHANGED resp

\* create_form from uuid4() through insert_one and the response
create_form_insert(f, fail) ==
    LET data == f.data
        doc == FormDoc(uuid + 1, data.package_name, data.title, data.type, now)
    IN /\ BagIn(f, inflight) /\ f.pc = "insert_one"
       /\ uuid' = uuid + 1
       /\ inflight' = inflight (-) Frame(f)
       /\ UNCHANGED <<holder, now>>
       /\ IF fail THEN
              /\ resp' = StorageError("create_form")
              /\ UNCHANGED colls
          ELSE
              /\ colls' = Store(colls, FORMS, Append(Coll(colls, FORMS), doc))
              /\ resp' = [op |-> "create_form", code |-> 201, _id |-> doc._id,
                          created_at |-> doc.created_at, type |-> data.type]

\* update_form_status from its start through find_one
update_form_status_begin(form_id, data, connect, fail) ==
    LET h == get_db(holder, connect)
        forms == Coll(colls, FORMS)
        found == WithId(forms, form_id)
        form == FindOne(forms, found)
        is_active == data["is_active"]
    IN /\ BagCardinality(inflight) < MaxReqs
       /\ holder' = h
       /\ UNCHANGED <<colls, uuid, now>>
       /\ IF ~h THEN
              /\ resp' = Unavailable("update_form_status")
              /\ UNCHANGED inflight
          ELSE IF ~Has(data, "is_active") THEN
              /\ resp' = Invalid("update_form_status", "Invalid request data received.")
              /\ UNCHANGED inflight
          ELSE IF fail THEN
              /\ resp' = StorageError("update_form_status")
              /\ UNCHANGED inflight
          ELSE IF found = {} THEN
              /\ resp' = NotFound("update_form_status", "Form not found.")
              /\ UNCHANGED inflight
          ELSE IF is_active /\ ~Has(form, "package_name") THEN
              /\ resp' = Crashed("update_form_status")
              /\ UNCHANGED inflight
          ELSE
              /\ inflight' = inflight (+)
                                 Frame([pc |-> IF is_active THEN "update_many" ELSE "update_one",
                                        op |-> "update_form_status", form_id |-> form_id,
                                        is_active |-> is_active,
                                        package_name |-> Get(form, "package_name"),
                                        deactivated_forms_count |-> 0])
              /\ UNCHANGED resp

\* update_form_status: update_many on the other forms of the package
update_form_status_others(f, fail) ==
    LET forms == Coll(colls, FORMS)
        p == f.package_name
    IN /\ BagIn(f, inflight) /\ f.pc = "update_many"
       /\ UNCHANGED <<holder, uuid, now>>
       /\ IF fail THEN
              /\ resp' = StorageError("update_form_status")
              /\ inflight' = inflight (-) Frame(f)
              /\ UNCHANGED colls
          ELSE
              /\ colls' = Replace(colls, FORMS, DeactivateOthers(forms, p, f.form_id))
              /\ inflight' = (inflight (-) Frame(f)) (+)
                                 Frame([f EXCEPT !.pc = "update_one",
                                                 !.deactivated_forms_count =
                                                     DeactivatedCount(forms, p, f.form_id)])
              /\ UNCHANGED resp

\* update_form_status: update_one on the target and the response
update_form_status_target(f, fail) ==
    LET forms == Coll(colls, FORMS)
    IN /\ BagIn(f, inflight) /\ f.pc = "update_one"
       /\ UNCHANGED <<holder, uuid, now>>
       /\ inflight' = inflight (-) Frame(f)
       /\ IF fail THEN
              /\ resp' = StorageError("update_form_status")
              /\ UNCHANGED colls
          ELSE
              /\ colls' = Replace(colls, FORMS, SetTarget(forms, f.form_id, f.is_active, now))
              /\ resp' = [op |-> "update_form_status", code |-> 200, _id |-> f.form_id,
                          is_active |-> f.is_active, updated_at |-> now,
                          deactivated_forms_count |-> f.deactivated_forms_count]

\* time passes between requests
Tick ==
    /\ now < MaxClock
    /\ now' = now + 1
    /\ UNCHANGED <<holder, colls, uuid, resp, inflight>>

\* ------------------------------------------------------------- specifications
\* app.py calls initialize_db() once at import: the handle is there or not
Init ==
    /\ holder \in BOOLEAN
    /\ colls = << >>
    /\ uuid = 0
    /\ now = 0
    /\ resp = [op |-> "none", code |-> 0]
    /\ inflight = EmptyBag

\* whether MongoClient + ping succeed matters only while there is no handle
Connects == IF holder THEN {TRUE} ELSE BOOLEAN

CreateForm == \E data \in CreateFormInputs, connect \in Connects, fail \in 0..2 :
    create_form(data, connect, fail)

GetActiveForm == \E p \in FormPackages, connect \in Connects : get_active_form(p, connect)

UpdateFormStatus == \E id \in Ids, data \in StatusInputs, connect \in Connects, fail \in 0..3 :
    update_form_status(id, data, connect, fail)

\* the form handlers, each request served to completion before the next
FormNext == CreateForm \/ GetActiveForm \/ UpdateFormStatus \/ Tick

FormSpec == Init /\ [][FormNext]_vars

\* ---- feedback submission
Users == {"u1"}

\* a submission with every required field, given its message and rating keys
Submission(package_name, form_id, user_id, extra) ==
    [k \in required_fields \cup DOMAIN extra |->
        CASE k = "package_name" -> package_name
          [] k = "app_version" -> "1.0"
          [] k = "form_id" -> form_id
          [] k = "user_id" -> user_id
          [] OTHER -> extra[k]]

Without(data, k) == [j \in DOMAIN data \ {k} |-> data[j]]

Messages == {"", "good"}

Ratings ==
    {PyNone, PyInt(0), PyInt(3), PyInt(6), PyStr(<<"a", "b", "c">>), PyStr(<<"3">>),
     PyFloat(45), PyBool(TRUE)}

\* the message and rating keys of a body: each missing or one of the values above
Extras ==
    {<< >>}
    \cup {[message |-> m] : m \in Messages}
    \cup {[rating |-> r] : r \in Ratings}
    \cup {[message |-> m, rating |-> r] : m \in Messages, r \in Ratings}

FullSubmissions == {Submission(p, 1, "u1", x) : p \in {"app1", ""}, x \in Extras}

\* the bodies of POST /feedback: none, complete ones, and ones lacking a required key
SubmitInputs ==
    {<< >>} \cup FullSubmissions
    \cup {Without(Submission("app1", 1, "u1", [message |-> "good", rating |-> PyInt(3)]), k) :
              k \in required_fields}

SubmitFeedback == \E data \in SubmitInputs, connect \in Connects, fail \in BOOLEAN :
    submit_feedback(data, connect, fail)

SubmitNext == SubmitFeedback

SubmitSpec == Init /\ [][SubmitNext]_vars

\* ---- every handler, each request served to completion before the next
FeedbackPackages == {"app1", FORMS}

AllSubmitInputs ==
    {<< >>} \cup {Submission(p, 1, "u1", [message |-> "good"]) : p \in FeedbackPackages}

Submit == \E data \in AllSubmitInputs, connect \in Connects, fail \in BOOLEAN :
    submit_feedback(data, connect, fail)

DeleteFeedback == \E p \in FeedbackPackages, id \in Ids, connect \in Connects :
    delete_feedback(p, id, connect)

DeleteFeedbacksForForm == \E p \in FeedbackPackages, id \in Ids, connect \in Connects :
    delete_feedbacks_for_form(p, id, connect)

DeleteAllFeedbacks == \E p \in FeedbackPackages, connect \in Connects :
    delete_all_feedbacks(p, connect)

Next ==
    \/ CreateForm \/ GetActiveForm \/ UpdateFormStatus
    \/ Submit \/ DeleteFeedback \/ DeleteFeedbacksForForm \/ DeleteAllFeedbacks
    \/ Tick

Spec == Init /\ [][Next]_vars

\* the form handlers of concurrent requests, interleaved at their storage calls, all
\* within one reading of the clock
RaceCreateInputs == [package_name : FormPackages, title : Titles, type : {"rating"}]

RaceStatusInputs == [{"is_active"} -> BOOLEAN]

CreateFormBegin == \E data \in RaceCreateInputs, connect \in Connects, fail \in BOOLEAN :
    create_form_begin(data, connect, fail)

CreateFormInsert == \E f \in BagToSet(inflight), fail \in BOOLEAN : create_form_insert(f, fail)

UpdateFormStatusBegin ==
    \E id \in Ids, data \in RaceStatusInputs, connect \in Connects, fail \in BOOLEAN :
        update_form_status_begin(id, data, connect, fail)

UpdateFormStatusOthers ==
    \E f \in BagToSet(inflight), fail \in BOOLEAN : update_form_status_others(f, fail)

UpdateFormStatusTarget ==
    \E f \in BagToSet(inflight), fail \in BOOLEAN : update_form_status_target(f, fail)

RaceNext ==
    \/ CreateFormBegin \/ CreateFormInsert
    \/ UpdateFormStatusBegin \/ UpdateFormStatusOthers \/ UpdateFormStatusTarget

RaceSpec == Init /\ [][RaceNext]_vars

\* concurrent Create and SetActive(true) requests whose storage calls all succeed
ActivateCreateBegin == \E data \in RaceCreateInputs, connect \in Connects :
    create_form_begin(data, connect, FALSE)

ActivateCreateInsert == \E f \in BagToSet(inflight) : create_form_insert(f, FALSE)

ActivateStatusBegin == \E id \in Ids, connect \in Connects :
    update_form_status_begin(id, [is_active |-> TRUE], connect, FALSE)

ActivateStatusOthers == \E f \in BagToSet(inflight) : update_form_status_others(f, FALSE)

ActivateStatusTarget == \E f \in BagToSet(inflight) : update_form_status_target(f, FALSE)

ActivateNext ==
    \/ ActivateCreateBegin \/ ActivateCreateInsert
    \/ ActivateStatusBegin \/ ActivateStatusOthers \/ ActivateStatusTarget

ActivateSpec == Init /\ [][ActivateNext]_vars

\* the feedback handlers, reads included, over two packages, two forms and two users
Packages == {"app1", "app2"}

FeedbackForms == {"f1", "f2"}

FeedbackUsers == {"u1", "u2"}

\* one complete submission and the ones differing from it in one field
FeedbackInputs ==
    LET x == [message |-> "good", rating |-> PyInt(5)]
    IN {Submission("app1", "f1", "u1", x),
        Submission("app2", "f1", "u1", x),
        Submission("app1", "f2", "u1", x),
        Submission("app1", "f1", "u2", x),
        Submission("app1", "f1", "u1", [rating |-> PyInt(5)]),
        Submission("app1", "f1", "u1", [message |-> "good"]),
        Submission("app1", "f1", "u1", [message |-> "good", rating |-> PyInt(3)]),
        Submission("app1", "f1", "u1", [message |-> "good", rating |-> PyBool(TRUE)])}

\* request.args.get("form_id"): missing, empty or a form id
FormIdArgs == {None, ""} \cup FeedbackForms

\* request.args.get("q"): missing, empty or a term
Terms == {None, "", "OO", "zz"}

FeedbackSubmit == \E data \in FeedbackInputs, connect \in Connects :
    submit_feedback(data, connect, FALSE)

FeedbackDelete == \E p \in Packages, id \in Ids, connect \in Connects :
    delete_feedback(p, id, connect)

FeedbackDeleteForForm == \E p \in Packages, f \in FeedbackForms, connect \in Connects :
    delete_feedbacks_for_form(p, f, connect)

FeedbackDeleteAll == \E p \in Packages, connect \in Connects :
    delete_all_feedbacks(p, connect)

GetAllPackageFeedback == \E p \in Packages, f \in FormIdArgs, connect \in Connects :
    get_all_package_feedback(p, f, connect)

GetFeedbackDetails == \E p \in Packages, id \in Ids, connect \in Connects :
    get_feedback_details(p, id, connect)

GetFeedbackByUser == \E p \in Packages, u \in FeedbackUsers, connect \in Connects :
    get_feedback_by_user(p, u, connect)

SearchFeedbackByMessage == \E p \in Packages, q \in Terms, connect \in Connects :
    search_feedback_by_message(p, q, connect)

GetAverageRating == \E p \in Packages, f \in FormIdArgs, connect \in Connects :
    get_average_rating(p, f, connect)

GetFeedbackStats == \E p \in Packages, f \in FormIdArgs, connect \in Connects :
    get_feedback_stats(p, f, connect)

FeedbackNext ==
    \/ FeedbackSubmit \/ FeedbackDelete \/ FeedbackDeleteForForm \/ FeedbackDeleteAll
    \/ GetAllPackageFeedback \/ GetFeedbackDetails \/ GetFeedbackByUser
    \/ SearchFeedbackByMessage \/ GetAverageRating \/ GetFeedbackStats

FeedbackSpec == Init /\ [][FeedbackNext]_vars

\* every handler of the service, and the process starting again over the same database
\* app.py at start: the handle is lost and initialize_db() is attempted once
Restart ==
    /\ holder' \in BOOLEAN
    /\ inflight' = EmptyBag
    /\ resp' = [op |-> "none", code |-> 0]
    /\ UNCHANGED <<colls, uuid, now>>

\* request.args.get("status")
StatusArgs == {None, "", "active", "INACTIVE", "bogus"}

\* request.args.get("limit"): missing, a decimal literal or not a number
LimitArgs == {None, "1", "x"}

ServiceInputs == {<< >>, Submission("app1", "f1", "u1", [message |-> "good", rating |-> PyInt(5)])}

ServiceSubmit == \E data \in ServiceInputs, connect \in Connects :
    submit_feedback(data, connect, FALSE)

GetRecentFeedback ==
    \E p \in Packages, limit \in LimitArgs, f \in {None, "f1"}, connect \in Connects :
        \E order \in Orders(FormQuery(Coll(colls, p), f)) :
            get_recent_feedback(p, limit, f, order, connect)

GetAllFormsByPackage == \E p \in FormPackages, status \in StatusArgs, connect \in Connects :
    get_all_forms_by_package(p, status, connect)

GetAllForms == \E status \in StatusArgs, connect \in Connects : get_all_forms(status, connect)

\* request.args.get("title"): missing, letters, or a regular-expression metacharacter
TitleArgs == {None, "rate", "."}

SearchForms ==
    \E p \in {None, "app1"}, status \in {None, "active", "bogus"}, title \in TitleArgs,
       type \in {None, "rating"}, connect \in Connects, fail \in BOOLEAN :
        search_forms(p, status, title, type, connect, fail)

ServiceNext ==
    \/ CreateForm \/ GetActiveForm \/ GetAllFormsByPackage \/ GetAllForms
    \/ UpdateFormStatus \/ SearchForms
    \/ ServiceSubmit \/ GetAllPackageFeedback \/ GetFeedbackDetails \/ GetFeedbackByUser
    \/ GetAverageRating \/ GetFeedbackStats \/ SearchFeedbackByMessage \/ GetRecentFeedback
    \/ FeedbackDelete \/ FeedbackDeleteForForm \/ FeedbackDeleteAll
    \/ Restart

ServiceSpec == Init /\ [][ServiceNext]_vars

\* feedback submitted at different times and the recent-feedback query
RecentInputs ==
    {Submission(p, f, "u1", [message |-> "good", rating |-> PyInt(5)]) :
        p \in {"app1"}, f \in FeedbackForms}

RecentSubmit == \E data \in RecentInputs, connect \in Connects :
    submit_feedback(data, connect, FALSE)

RecentFeedback ==
    \E p \in Packages, limit \in LimitArgs, f \in FormIdArgs, connect \in Connects :
        \E order \in Orders(FormQuery(Coll(colls, p), f)) :
            get_recent_feedback(p, limit, f, order, connect)

RecentNext == RecentSubmit \/ RecentFeedback \/ Tick

RecentSpec == Init /\ [][RecentNext]_vars

\* ------------------------------------------------------------- properties
\* In the action formulas below a handler is given holder' as its connect argument:
\* get_db(holder, holder') = holder' in every step that handler takes, so this covers
\* both outcomes of a connection attempt.
Forms == Coll(colls, FORMS)

IsActive(d) == Has(d, "is_active") /\ d["is_active"] = TRUE

SamePackage(a, b) ==
    Has(a, "package_name") /\ Has(b, "package_name") /\ a["package_name"] = b["package_name"]

\* C1: after any sequence of form Create and SetActive requests, each served to
\* completion before the next starts, no two forms of one package are active.
C1_AtMostOneActive ==
    \A i, j \in DOMAIN Forms :
        (i # j /\ IsActive(Forms[i]) /\ IsActive(Forms[j])) => ~SamePackage(Forms[i], Forms[j])

\* a SetActive(true) has just deactivated the active sibling of its target
C1_Witness ==
    /\ resp.op = "update_form_status" /\ resp.code = 200
    /\ resp.is_active /\ resp.deactivated_forms_count = 1
    /\ \E i, j \in DOMAIN Forms :
           /\ i # j /\ SamePackage(Forms[i], Forms[j])
           /\ Forms[i]["_id"] = resp._id /\ IsActive(Forms[i]) /\ ~IsActive(Forms[j])

TwoActive(docs, p) ==
    \E i, j \in DOMAIN docs :
        /\ i # j /\ IsActive(docs[i]) /\ IsActive(docs[j])
        /\ docs[i]["package_name"] = p /\ docs[j]["package_name"] = p

\* C2: the second write of a Create or SetActive(true) does not look at what other
\* requests wrote since its first write: when it runs while another form of the package
\* is active, two forms of that package are active afterwards (and such a state is
\* reached, see C2_Witness).
C2_RaceWindow ==
    [][\A f \in BagToSet(inflight) :
          LET pre == Coll(colls, FORMS)
              post == Coll(colls', FORMS)
          IN /\ (f.pc = "insert_one" /\ create_form_insert(f, FALSE)) =>
                    ((\E i \in DOMAIN pre :
                          IsActive(pre[i]) /\ pre[i]["package_name"] = f.data.package_name)
                         => TwoActive(post, f.data.package_name))
             /\ (f.pc = "update_one" /\ f.is_active /\ update_form_status_target(f, FALSE)) =>
                    ((\E i \in DOMAIN pre :
                          /\ IsActive(pre[i]) /\ pre[i]["package_name"] = f.package_name
                          /\ pre[i]["_id"] # f.form_id)
                         => TwoActive(post, f.package_name))
      ]_vars

\* every request has completed and two forms of one package are active
C2_Witness ==
    /\ inflight = EmptyBag
    /\ \E p \in FormPackages : TwoActive(Forms, p)

\* C3: a Create that succeeds for a package leaves every earlier form of that package
\* stored with is_active = false, and GetActive of the package then returns the new form.
C3_CreateDeactivatesPrevious ==
    [][\A data \in CreateFormInputs :
          (resp'.code = 201 /\ create_form(data, holder', 0)) =>
              LET pre == Coll(colls, FORMS)
                  post == Coll(colls', FORMS)
                  got == ActiveFormResponse(colls', data.package_name)
              IN /\ \A i \in DOMAIN pre :
                        pre[i]["package_name"] = data.package_name =>
                            \E j \in DOMAIN post :
                                post[j]["_id"] = pre[i]["_id"] /\ post[j]["is_active"] = FALSE
                 /\ got.code = 200
                 /\ got.body["_id"] = resp'._id
                 /\ got.body["package_name"] = data.package_name
                 /\ \A i \in DOMAIN pre : pre[i]["_id"] # resp'._id
      ]_vars

\* form B was created while form A of the same package was there: B is active, A is not
C3_Witness ==
    /\ resp.op = "create_form" /\ resp.code = 201
    /\ \E i, j \in DOMAIN Forms :
           /\ i < j /\ SamePackage(Forms[i], Forms[j])
           /\ Forms[j]["_id"] = resp._id /\ IsActive(Forms[j])
           /\ ~IsActive(Forms[i]) /\ Forms[i]["updated_at"] = Forms[j]["created_at"]
           /\ Forms[i]["updated_at"] > Forms[i]["created_at"]

\* C4: a SetActive(A, true) that succeeds leaves A active and every other form of A's
\* package inactive, and reports as deactivated_forms_count the number of other forms
\* of A's package that were active before the call (1 when B was the active one).
C4_ActivateSwitches ==
    [][\A id \in Ids :
          (resp'.code = 200 /\ update_form_status(id, [is_active |-> TRUE], holder', 0)) =>
              LET pre == Coll(colls, FORMS)
                  post == Coll(colls', FORMS)
                  A == CHOOSE d \in {pre[i] : i \in DOMAIN pre} : d["_id"] = id
                  others == {i \in DOMAIN pre :
                                /\ pre[i]["_id"] # id /\ SamePackage(pre[i], A)
                                /\ IsActive(pre[i])}
              IN /\ \A i \in DOMAIN post : post[i]["_id"] = id => IsActive(post[i])
                 /\ \A i \in DOMAIN post :
                        (post[i]["_id"] # id /\ SamePackage(post[i], A)) => ~IsActive(post[i])
                 /\ resp'.deactivated_forms_count = Cardinality(others)
                 /\ resp'._id = id /\ resp'.is_active = TRUE
      ]_vars

\* A has been activated while B was the active form of its package
C4_Witness ==
    /\ resp.op = "update_form_status" /\ resp.code = 200
    /\ resp.is_active /\ resp.deactivated_forms_count = 1
    /\ \E i, j \in DOMAIN Forms :
           /\ i < j /\ SamePackage(Forms[i], Forms[j])
           /\ Forms[i]["_id"] = resp._id /\ IsActive(Forms[i]) /\ ~IsActive(Forms[j])

\* C6: every request that changes a form's is_active (or inserts the form) leaves that
\* form's updated_at at the time of the request, and a SetActive that succeeds stamps
\* its target's updated_at.
C6_StatusChangeStamps ==
    [][LET pre == Coll(colls, FORMS)
           post == Coll(colls', FORMS)
       IN /\ \A j \in DOMAIN post :
                 (\A i \in DOMAIN pre :
                      pre[i]["_id"] = post[j]["_id"] => IsActive(pre[i]) # IsActive(post[j]))
                     => post[j]["updated_at"] = now
          /\ \A id \in Ids, data \in StatusInputs :
                 (resp'.code = 200 /\ update_form_status(id, data, holder', 0)) =>
                     \A j \in DOMAIN post : post[j]["_id"] = id => post[j]["updated_at"] = now
      ]_vars

\* C7: SetActive(form_id, false) leaves every other form document as it was and changes
\* at most is_active and updated_at of the target, so no form becomes active; SetActive
\* on an unknown form_id changes nothing and, storage permitting, answers NotFound.
C7_DeactivateFrame ==
    [][\/ resp'.op # "update_form_status"
       \/ \A id \in Ids :
          LET pre == Coll(colls, FORMS)
              post == Coll(colls', FORMS)
              known == \E i \in DOMAIN pre : pre[i]["_id"] = id
              Rest(d) == [k \in DOMAIN d \ {"is_active", "updated_at"} |-> d[k]]
              Framed ==
                  /\ \/ colls' = colls
                     \/ /\ DOMAIN colls' = DOMAIN colls
                        /\ \A n \in DOMAIN colls \ {FORMS} : colls'[n] = colls[n]
                        /\ DOMAIN post = DOMAIN pre
                        /\ \A i \in DOMAIN pre :
                               \/ post[i] = pre[i]
                               \/ /\ pre[i]["_id"] = id
                                  /\ Rest(post[i]) = Rest(pre[i])
                                  /\ IsActive(post[i]) => IsActive(pre[i])
                  /\ (resp'.code = 200) =>
                         \A i \in DOMAIN post : post[i]["_id"] = id => ~IsActive(post[i])
          IN /\ \/ Framed
                \/ \A fail \in 0..3 :
                       ~update_form_status(id, [is_active |-> FALSE], holder', fail)
             /\ \/ known
                \/ colls' = colls /\ resp'.code = 404
                \/ \A a \in BOOLEAN, fail \in 0..3 :
                       \/ ~update_form_status(id, [is_active |-> a], holder', fail)
                       \/ /\ colls' = colls
                          /\ (holder' /\ fail # 1) => resp'.code = 404
      ]_vars

\* a form has been deactivated while a sibling is active: the sibling stays active and
\* the target is inactive
C7_Witness ==
    /\ resp.op = "update_form_status" /\ resp.code = 200 /\ ~resp.is_active
    /\ \E i, j \in DOMAIN Forms :
           /\ i # j /\ SamePackage(Forms[i], Forms[j])
           /\ Forms[i]["_id"] = resp._id /\ ~IsActive(Forms[i]) /\ IsActive(Forms[j])
           /\ Forms[i]["updated_at"] = resp.updated_at

\* the _id of every form document of the forms collection
FormIds(db) ==
    LET docs == Coll(db, FORMS)
    IN {docs[i]["_id"] : i \in {j \in DOMAIN docs : Has(docs[j], "package_name")}}

\* C5: no request removes a form document: the set of form ids in the forms collection
\* never shrinks, whatever package name the feedback requests carry.
C5_FormsNeverDeleted == [][FormIds(colls) \subseteq FormIds(colls')]_vars

\* ---- feedback submission
IsRating(r) == Has(r, "int") /\ 1 <= r.int /\ r.int <= 5

Complete(data) == required_fields \subseteq DOMAIN data /\ ~InvalidName(data["package_name"])

AllDocs(db) == UNION {{db[n][i] : i \in DOMAIN db[n]} : n \in DOMAIN db}

\* C8: every feedback document persisted by Create has a rating that is None or an
\* integer in 1..5; and a complete submission whose rating is an integer in 1..5 is
\* stored (storage permitting) with exactly that rating.
C8_StoredRatingValid ==
    [][/\ \A d \in AllDocs(colls') :
              Has(d, "rating") => (d["rating"] = PyNone \/ IsRating(d["rating"]))
       /\ \A data \in SubmitInputs :
              (/\ resp'.op = "submit_feedback" /\ holder'
               /\ Complete(data) /\ Has(data, "rating") /\ IsRating(data["rating"])
               /\ submit_feedback(data, holder', FALSE)) =>
                  LET docs == Coll(colls', data["package_name"])
                  IN /\ resp'.code = 201 /\ resp'.rating = data["rating"]
                     /\ Len(docs) = Len(Coll(colls, data["package_name"])) + 1
                     /\ docs[Len(docs)]["_id"] = resp'._id
                     /\ docs[Len(docs)]["rating"] = data["rating"]
      ]_vars

\* the inputs C9 names: a rating of 0, 6 or "abc", or a required key left out
Rejectable(data) ==
    \/ required_fields \ DOMAIN data # {}
    \/ Has(data, "rating") /\ data["rating"] \in {PyInt(0), PyInt(6), PyStr(<<"a", "b", "c">>)}

\* C9: a Create whose rating is 0, 6 or a non-numeric string, or that omits one of
\* package_name, app_version, form_id, user_id, writes nothing and, served with a
\* storage handle, answers 400.
C9_InvalidRejected ==
    [][\/ /\ colls' = colls /\ uuid' = uuid
          /\ holder' => resp'.code = 400
       \/ \A data \in SubmitInputs, fail \in BOOLEAN :
              ~(Rejectable(data) /\ submit_feedback(data, holder', fail))
      ]_vars

\* a rating has been rejected while feedback is stored
C9_Witness ==
    /\ resp.op = "submit_feedback" /\ resp.code = 400
    /\ resp.details = "Rating must be an integer between 1 and 5"
    /\ AllDocs(colls) # {}

\* "absent" as the handler's own message-or-rating test reads it
NoMessage(data) == Get(data, "message") \in {None, ""}

NoRating(data) == GetRating(data) = PyNone

\* C10: of the complete submissions served with storage at hand, one with neither
\* message nor rating answers 400, and one with a message and no rating, or with a
\* rating in 1..5 and no message, answers 201.
C10_EitherAlone ==
    [][\A data \in SubmitInputs :
          (/\ resp'.op = "submit_feedback" /\ holder' /\ Complete(data)
           /\ submit_feedback(data, holder', FALSE)) =>
              /\ (NoMessage(data) /\ NoRating(data)) => resp'.code = 400
              /\ (~NoMessage(data) /\ NoRating(data)) => resp'.code = 201
              /\ (NoMessage(data) /\ Has(data, "rating") /\ IsRating(data["rating"]))
                     => resp'.code = 201
      ]_vars

\* ---- validation and the storage handle
\* C11: a request with invalid input (create_form, update_form_status, submit_feedback)
\* is answered 400 whatever the state of the storage handle, and the handler does not
\* obtain the handle before answering.
C11_ValidationFirst ==
    [][\/ resp'.code = 400 /\ holder' = holder
       \/ /\ \A data \in CreateFormInputs :
                 ~(~create_form_valid(data) /\ create_form(data, holder', 0))
          /\ \A id \in Ids : ~update_form_status(id, << >>, holder', 0)
          /\ \A data \in AllSubmitInputs :
                 ~(SubmitRejection(data) # "" /\ submit_feedback(data, holder', FALSE))
      ]_vars

\* ---- feedback deletion
\* the statement of C12 as given: DeleteAll on any package with zero feedback records,
\* a package without a collection included, answers success with count 0
C12_AnyEmptyPackage ==
    [][resp'.op = "delete_all_feedbacks" =>
          \A p \in Packages :
              (holder' /\ Len(Coll(colls, p)) = 0 /\ delete_all_feedbacks(p, holder')) =>
                  (resp'.code = 200 /\ resp'.deleted_count = 0)
      ]_vars

\* C12 (amended): DeleteAll on a package whose collection exists and holds zero feedback
\* answers success with count 0, and on a package without a collection answers
\* NotFound; DeleteByForm where no feedback of the package has that form_id answers
\* NotFound; none of these changes the stored data.
C12_DeleteEmpty ==
    [][/\ resp'.op = "delete_all_feedbacks" =>
              \A p \in Packages :
                  (holder' /\ Len(Coll(colls, p)) = 0 /\ delete_all_feedbacks(p, holder')) =>
                      /\ colls' = colls
                      /\ IF p \in DOMAIN colls
                         THEN resp'.code = 200 /\ resp'.deleted_count = 0
                         ELSE resp'.code = 404
       /\ resp'.op = "delete_feedbacks_for_form" =>
              \A p \in Packages, f \in FeedbackForms :
                  LET docs == Coll(colls, p)
                  IN (/\ holder'
                      /\ \A i \in DOMAIN docs : docs[i]["form_id"] # f
                      /\ delete_feedbacks_for_form(p, f, holder')) =>
                         (resp'.code = 404 /\ colls' = colls)
      ]_vars

\* DeleteAll has answered count 0 for a package emptied before
C12_Witness ==
    /\ resp.op = "delete_all_feedbacks" /\ resp.code = 200 /\ resp.deleted_count = 0
    /\ uuid > 0
    /\ \E p \in DOMAIN colls : Len(colls[p]) = 0

\* C13: DeleteById of a feedback the package holds answers success and removes that
\* record and no other, so the id is gone; DeleteById of an id the package does not
\* hold (as in the second of two calls) answers NotFound and changes nothing.
C13_DeleteTwice ==
    [][resp'.op = "delete_feedback" =>
          \A p \in Packages, id \in Ids :
              LET docs == Coll(colls, p)
                  post == Coll(colls', p)
                  held == \E i \in DOMAIN docs : docs[i]["_id"] = id
              IN (holder' /\ delete_feedback(p, id, holder')) =>
                     IF held
                     THEN /\ resp'.code = 200
                          /\ Len(post) = Len(docs) - 1
                          /\ \A j \in DOMAIN post : post[j]["_id"] # id
                          /\ \A i \in DOMAIN docs :
                                 docs[i]["_id"] # id => \E j \in DOMAIN post : post[j] = docs[i]
                          /\ DOMAIN colls' = DOMAIN colls
                          /\ \A n \in DOMAIN colls \ {p} : colls'[n] = colls[n]
                     ELSE resp'.code = 404 /\ colls' = colls
      ]_vars

\* the only feedback ever stored has been deleted from its package, and a DeleteById
\* on that package has answered that the feedback is not there
C13_Witness ==
    /\ resp = NotFound("delete_feedback", "Feedback not found")
    /\ uuid = 1
    /\ \E p \in Packages : DOMAIN colls = {p} /\ colls[p] = << >>

\* ---- feedback reads
\* the documents of a sequence, as a set
Range(seq) == {seq[i] : i \in DOMAIN seq}

\* the statement of C14 as given: ListByUser for a user with no feedback in the package
\* answers success with an empty list, whatever the package
C14_NeverNotFound ==
    [][resp'.op = "get_feedback_by_user" =>
          \A p \in Packages, u \in FeedbackUsers :
              LET docs == Coll(colls, p)
              IN (/\ holder'
                  /\ \A i \in DOMAIN docs : docs[i]["user_id"] # u
                  /\ get_feedback_by_user(p, u, holder')) =>
                     (resp'.code = 200 /\ resp'.body = << >>)
      ]_vars

\* C14 (amended): ListByUser on a package that has a collection answers success with
\* exactly the feedback of that user in the package, so an empty list for a user with
\* no feedback; on a package without a collection it answers NotFound.
C14_ListByUser ==
    [][resp'.op = "get_feedback_by_user" =>
          \A p \in Packages, u \in FeedbackUsers :
              LET docs == Coll(colls, p)
                  mine == {d \in Range(docs) : d["user_id"] = u}
              IN (holder' /\ get_feedback_by_user(p, u, holder')) =>
                     /\ colls' = colls
                     /\ IF p \in DOMAIN colls
                        THEN /\ resp'.code = 200
                             /\ Range(resp'.body) = mine
                             /\ Len(resp'.body) = Cardinality(mine)
                             /\ mine = {} => resp'.body = << >>
                        ELSE resp'.code = 404
      ]_vars

\* the one package that has a collection holds feedback, none of it by the user asked
\* for, and ListByUser has answered an empty list
C14_Witness ==
    /\ resp.op = "get_feedback_by_user" /\ resp.code = 200 /\ resp.body = << >>
    /\ \E p \in Packages : DOMAIN colls = {p} /\ Len(colls[p]) > 0

\* ---- rating aggregates
\* the feedback of package p that a request with this form_id argument is about
Matching(p, f) ==
    LET docs == Coll(colls, p)
    IN {i \in DOMAIN docs : f \in FeedbackForms => docs[i]["form_id"] = f}

\* the matching feedback whose rating is an integer in 1..5
ValidOf(p, f) == {i \in Matching(p, f) : IsRating(Coll(colls, p)[i]["rating"])}

\* the sum of the ratings of the documents at the positions J
RECURSIVE Total(_, _)
Total(docs, J) ==
    IF J = {} THEN 0
    ELSE LET i == CHOOSE j \in J : TRUE IN docs[i]["rating"].int + Total(docs, J \ {i})

\* C15: AverageRating answers NotFound when no feedback matches, 0 when feedback
\* match but none has an integer rating in 1..5, and otherwise the sum of those
\* ratings divided by their number.
C15_AverageOfValid ==
    [][resp'.op = "get_average_rating" =>
          \A p \in Packages, f \in FormIdArgs :
              LET docs == Coll(colls, p)
                  valid == ValidOf(p, f)
              IN (holder' /\ get_average_rating(p, f, holder')) =>
                     IF Matching(p, f) = {} THEN resp'.code = 404
                     ELSE /\ resp'.code = 200
                          /\ IF valid = {} THEN resp'.average_rating.num = 0
                             ELSE resp'.average_rating.num * Cardinality(valid)
                                      = Total(docs, valid) * resp'.average_rating.den
      ]_vars

\* the breakdown key of each rating value
Key == <<"1", "2", "3", "4", "5">>

\* C16: Stats answers NotFound when no feedback matches and otherwise total_feedback =
\* the number of matching feedback, a rating_breakdown with exactly the keys "1".."5",
\* each counting the matching feedback with that integer rating, and the average that
\* AverageRating computes on the same state.
C16_Stats ==
    [][resp'.op = "get_feedback_stats" =>
          \A p \in Packages, f \in FormIdArgs :
              LET docs == Coll(colls, p)
                  valid == ValidOf(p, f)
              IN (holder' /\ get_feedback_stats(p, f, holder')) =>
                     IF Matching(p, f) = {} THEN resp'.code = 404
                     ELSE /\ resp'.code = 200
                          /\ resp'.total_feedback = Cardinality(Matching(p, f))
                          /\ DOMAIN resp'.rating_breakdown = {Key[n] : n \in 1..5}
                          /\ \A n \in 1..5 :
                                 resp'.rating_breakdown[Key[n]] =
                                     Cardinality({i \in valid : docs[i]["rating"].int = n})
                          /\ Cardinality(valid) <= resp'.total_feedback
                          /\ resp'.average_rating = Average(docs, FormQuery(docs, f))
      ]_vars

\* C17: feedback ListByPackage answers NotFound when the package has no collection or
\* no feedback of the package matches the form_id filter, and otherwise answers
\* exactly the feedback of that package that matches, in stored order.
C17_ListByPackage ==
    [][resp'.op = "get_all_package_feedback" =>
          \A p \in Packages, f \in FormIdArgs :
              LET docs == Coll(colls, p)
                  hits == {docs[i] : i \in Matching(p, f)}
              IN (holder' /\ get_all_package_feedback(p, f, holder')) =>
                     /\ colls' = colls
                     /\ IF p \notin DOMAIN colls \/ hits = {} THEN resp'.code = 404
                        ELSE /\ resp'.code = 200
                             /\ Range(resp'.body) = hits
                             /\ Len(resp'.body) = Cardinality(Matching(p, f))
                             /\ \A i, j \in DOMAIN resp'.body :
                                    i < j => resp'.body[i]["_id"] < resp'.body[j]["_id"]
      ]_vars

\* a package holds feedback of two forms and ListByPackage has answered the feedback
\* of one of them only
C17_Witness ==
    /\ resp.op = "get_all_package_feedback" /\ resp.code = 200 /\ Len(resp.body) = 1
    /\ \E p \in Packages :
           /\ p \in DOMAIN colls /\ Len(colls[p]) = 2
           /\ colls[p][1]["form_id"] # colls[p][2]["form_id"]
           /\ resp.body[1] \in Range(colls[p])

\* ---- the null handle
\* some handler, given a well-formed request, takes this step without a handle
ServedWithoutHandle ==
    \/ \E data \in CreateFormInputs, fail \in 0..2 : create_form(data, FALSE, fail)
    \/ \E p \in FormPackages : get_active_form(p, FALSE)
    \/ \E p \in FormPackages, status \in StatusArgs : get_all_forms_by_package(p, status, FALSE)
    \/ \E status \in StatusArgs : get_all_forms(status, FALSE)
    \/ \E id \in Ids, data \in StatusInputs, fail \in 0..3 :
           update_form_status(id, data, FALSE, fail)
    \/ \E p \in {None, "app1"}, status \in {None, "active", "bogus"}, title \in TitleArgs,
          type \in {None, "rating"}, fail \in BOOLEAN :
           search_forms(p, status, title, type, FALSE, fail)
    \/ \E data \in ServiceInputs, fail \in BOOLEAN : submit_feedback(data, FALSE, fail)
    \/ \E p \in Packages, f \in FormIdArgs :
           \/ get_all_package_feedback(p, f, FALSE)
           \/ get_average_rating(p, f, FALSE)
           \/ get_feedback_stats(p, f, FALSE)
           \/ \E limit \in {None, "1"} : get_recent_feedback(p, limit, f, << >>, FALSE)
    \/ \E p \in Packages, id \in Ids :
           get_feedback_details(p, id, FALSE) \/ delete_feedback(p, id, FALSE)
    \/ \E p \in Packages, u \in FeedbackUsers : get_feedback_by_user(p, u, FALSE)
    \/ \E p \in Packages, q \in Terms : search_feedback_by_message(p, q, FALSE)
    \/ \E p \in Packages, f \in FeedbackForms : delete_feedbacks_for_form(p, f, FALSE)
    \/ \E p \in Packages : delete_all_feedbacks(p, FALSE)

\* C18: a request served while the gateway yields no handle (none is held and the
\* connection attempt fails) is answered StorageUnavailable, which is neither NotFound
\* nor success, and the stored data stay as they were.
C18_NullHandle ==
    [][\/ holder \/ holder'
       \/ /\ resp'.code = 500 /\ resp'.error = "StorageUnavailable"
          /\ resp'.code \notin {200, 201, 404}
          /\ colls' = colls
       \/ ~ServedWithoutHandle
      ]_vars

\* the database holds documents, the process has no handle, and a request has been
\* answered StorageUnavailable
C18_Witness ==
    /\ ~holder
    /\ resp.code = 500 /\ resp.error = "StorageUnavailable"
    /\ \E n \in DOMAIN colls : Len(colls[n]) > 0

\* C19: SearchByMessage on a package that has a collection answers success, with an
\* empty list when nothing matches, and with every feedback of the package when the
\* term is empty or absent.
C19_SearchAll ==
    [][resp'.op = "search_feedback_by_message" =>
          \A p \in Packages, q \in Terms :
              (holder' /\ p \in DOMAIN colls /\ search_feedback_by_message(p, q, holder')) =>
                  /\ resp'.code = 200
                  /\ q \in {None, ""} => resp'.body = colls[p]
      ]_vars

\* ---- form creation, what the caller is told
\* C20: the answer to a Create that succeeds carries, besides the new form's _id,
\* created_at and type, the number of forms of the package that were active before
\* the call.
C20_CreateReportsCount ==
    [][\A data \in CreateFormInputs :
          (resp'.code = 201 /\ create_form(data, holder', 0)) =>
              LET pre == Coll(colls, FORMS)
                  active == {i \in DOMAIN pre :
                                IsActive(pre[i]) /\ pre[i]["package_name"] = data.package_name}
              IN \E k \in DOMAIN resp' \ {"op", "code", "_id", "created_at", "type"} :
                     resp'[k] = Cardinality(active)
      ]_vars

\* ---- form reads
\* what a status argument asks for; letter case is ignored and an empty status is no
\* status
StatusWanted(status, d) ==
    CASE status \in {None, ""} -> TRUE
      [] status = "active" -> IsActive(d)
      [] status = "INACTIVE" -> ~IsActive(d)

\* C21: form ListByPackage and ListAll answer ValidationError for a status that is
\* neither active nor inactive, NotFound when no form matches, and otherwise exactly
\* the forms (of the package, for ListByPackage) that the status asks for.
C21_FormLists ==
    [][/\ resp'.op = "get_all_forms_by_package" =>
              \A p \in FormPackages, status \in StatusArgs :
                  LET hits == {d \in Range(Forms) :
                                  d["package_name"] = p /\ (status # "bogus" => StatusWanted(status, d))}
                  IN (holder' /\ get_all_forms_by_package(p, status, holder')) =>
                         /\ colls' = colls
                         /\ IF status = "bogus" THEN resp'.code = 400
                            ELSE IF hits = {} THEN resp'.code = 404
                            ELSE /\ resp'.code = 200
                                 /\ Range(resp'.body) = hits
                                 /\ Len(resp'.body) = Cardinality(hits)
       /\ resp'.op = "get_all_forms" =>
              \A status \in StatusArgs :
                  LET hits == {d \in Range(Forms) : status # "bogus" => StatusWanted(status, d)}
                  IN (holder' /\ get_all_forms(status, holder')) =>
                         /\ colls' = colls
                         /\ IF status = "bogus" THEN resp'.code = 400
                            ELSE IF hits = {} THEN resp'.code = 404
                            ELSE /\ resp'.code = 200
                                 /\ Range(resp'.body) = hits
                                 /\ Len(resp'.body) = Cardinality(hits)
      ]_vars

\* two forms of one package are stored, one active and one not, and a list of that
\* package has answered one of them only
C21_Witness ==
    /\ resp.op = "get_all_forms_by_package" /\ resp.code = 200 /\ Len(resp.body) = 1
    /\ Len(Forms) = 2 /\ SamePackage(Forms[1], Forms[2])
    /\ IsActive(Forms[1]) # IsActive(Forms[2])
    /\ resp.body[1] \in Range(Forms)

\* the term occurs in the value, letter case ignored
Substring(term, value) ==
    LET t == Chars(term)
        v == Chars(value)
    IN \E off \in 0..Len(v) :
           /\ off + Len(t) <= Len(v)
           /\ \A k \in 1..Len(t) : Lower(t[k]) = Lower(v[off + k])

\* C22: form Search, given a valid status or none, answers success with exactly the
\* forms that satisfy every filter supplied (package_name, status, title as a
\* case-insensitive substring, type), an empty list when there is none.
C22_SearchForms ==
    [][resp'.op = "search_forms" =>
          \A p \in {None, "app1"}, status \in {None, "active"}, title \in TitleArgs,
             type \in {None, "rating"} :
              LET hits == {d \in Range(Forms) :
                              /\ p # None => d["package_name"] = p
                              /\ StatusWanted(status, d)
                              /\ title # None => Substring(title, d["title"])
                              /\ type # None => d["type"] = type}
              IN (holder' /\ search_forms(p, status, title, type, holder', FALSE)) =>
                     /\ resp'.code = 200
                     /\ Range(resp'.body) = hits
                     /\ Len(resp'.body) = Cardinality(hits)
      ]_vars

\* C23: the recent-feedback query with a positive limit, served with a storage handle,
\* answers not found when no feedback of the package matches the form filter; otherwise
\* it answers with min(limit, matches) distinct matching feedback in descending
\* created_at order, none of the feedback left out being newer than one returned.
C23_Recent ==
    [][resp'.op = "get_recent_feedback" =>
          \A p \in Packages, limit \in {None, "1"}, f \in FormIdArgs :
              LET docs == Coll(colls, p)
                  I == Matching(p, f)
                  n == IntOf(LimitArg(limit))
                  hits == {docs[i] : i \in I}
              IN \/ ~(/\ holder'
                      /\ \E order \in Orders(I) : get_recent_feedback(p, limit, f, order, holder'))
                 \/ /\ colls' = colls
                    /\ n > 0
                    /\ IF I = {} THEN resp'.code = 404
                       ELSE LET body == resp'.body
                            IN /\ resp'.code = 200
                               /\ Len(body) = (IF n < Cardinality(I) THEN n ELSE Cardinality(I))
                               /\ Range(body) \subseteq hits
                               /\ Cardinality(Range(body)) = Len(body)
                               /\ \A a, b \in DOMAIN body :
                                      a < b => body[a]["created_at"] >= body[b]["created_at"]
                               /\ \A d \in hits \ Range(body), r \in Range(body) :
                                      d["created_at"] <= r["created_at"]
      ]_vars

\* a limit of 1 applied to two matching feedback of different ages returned the newer
C23_Witness ==
    /\ resp.op = "get_recent_feedback"
    /\ resp.code = 200
    /\ Len(resp.body) = 1
    /\ \E p \in Packages :
           LET docs == Coll(colls, p)
           IN /\ Len(docs) = 2
              /\ docs[1]["created_at"] < docs[2]["created_at"]
              /\ resp.body[1] = docs[2]

\* C24: once the process holds a storage handle, get_db returns it whatever a connection
\* attempt would yield, and no step of the service other than the process starting
\* again leaves the process without it.
C24_HandleReused ==
    [][Restart \/ ~holder \/ (holder' /\ \A c \in BOOLEAN : get_db(holder, c) = holder)]_vars

\* a form was created through a handle and a later request was served through it
C24_Witness ==
    /\ holder
    /\ resp.op = "get_active_form"
    /\ resp.code = 200

\* C25: when concurrent Create and SetActive(true) requests, interleaved at their storage
\* calls and none failing at one, have all completed, every package that has a form has
\* an active form.
C25_SomeActive ==
    inflight = EmptyBag =>
        \A p \in FormPackages :
            (\E d \in Range(Forms) : d["package_name"] = p) =>
                \E d \in Range(Forms) : d["package_name"] = p /\ IsActive(d)

\* two requests raced, both have completed, the last one a SetActive(true), and the
\* package is left with active forms
C25_Witness ==
    /\ inflight = EmptyBag
    /\ resp.op = "update_form_status"
    /\ resp.code = 200
    /\ \E p \in FormPackages : TwoActive(Forms, p)

\* C26: a Create, or a SetActive(true), that is served with a storage handle and fails
\* with a storage error at its second write (insert_one of the new form, update_one of
\* the target) leaves every collection as it was before the request.
C26_FailureRestores ==
    [][resp'.code = 500 =>
          /\ \A data \in CreateFormInputs :
                 (holder' /\ create_form(data, holder', 2)) => colls' = colls
          /\ \A id \in Ids :
                 (holder' /\ update_form_status(id, [is_active |-> TRUE], holder', 3)) =>
                     colls' = colls
      ]_vars

====
